---- MODULE Spec2Model ----
(***************************************************************************)
(* Model of the prompt chaining system (long-prompt-looper).               *)
(*                                                                         *)
(* Strings are sequences of one-character tokens, so that basename,        *)
(* splitext, join and sanitize are computed character by character as the  *)
(* Python code computes them.  A character outside ASCII is written as its *)
(* code point ("U+00E9" is e-acute, "U+0663" is ARABIC-INDIC DIGIT THREE). *)
(* A None path and an empty path are both the empty sequence: the code     *)
(* only ever tests them with `if not file_path` / `if var_a_path`.         *)
(***************************************************************************)
EXTENDS Integers, Sequences, FiniteSets, TLC

(***************************************************************************)
(* Bounds of the model.                                                    *)
(***************************************************************************)
MaxNameLen == 2
MaxSaves == 3
MaxFiles == 2
MaxDeletes == 1

(***************************************************************************)
(* Characters.                                                             *)
(***************************************************************************)
AsciiLetters ==
  {"a","b","c","d","e","f","g","h","i","j","k","l","m","n","o","p","q","r",
   "s","t","u","v","w","x","y","z","A","B","C","D","E","F","G","H","I","J",
   "K","L","M","N","O","P","Q","R","S","T","U","V","W","X","Y","Z"}

AsciiDigits == {"0","1","2","3","4","5","6","7","8","9"}

\* Characters outside ASCII for which str.isalnum() is true.
NonAsciiAlnum == {"U+00E9", "U+0663"}

\* str.isalnum() of a one-character string (Unicode aware).
isalnum(c) == c \in AsciiLetters \cup AsciiDigits \cup NonAsciiAlnum

\* str.lower() on the characters that occur in the extensions of the model.
LowerChar(c) ==
  CASE c = "T" -> "t" [] c = "X" -> "x" [] c = "M" -> "m" [] c = "D" -> "d"
    [] c = "P" -> "p" [] c = "F" -> "f" [] c = "A" -> "a" [] c = "B" -> "b"
    [] OTHER -> c

Lower(s) == [i \in 1..Len(s) |-> LowerChar(s[i])]

EndsWith(s, suf) ==
  /\ Len(s) >= Len(suf)
  /\ SubSeq(s, Len(s) - Len(suf) + 1, Len(s)) = suf

NONE == <<"N","O","N","E">>
DotTxt == <<".","t","x","t">>
DotMd == <<".","m","d">>
Txt == <<"t","x","t">>

(***************************************************************************)
(* os.path helpers (POSIX).                                                *)
(***************************************************************************)
\* Last index of character c in s, 0 when absent (str.rfind + 1).
RFind(s, c) ==
  IF \E i \in 1..Len(s) : s[i] = c
    THEN CHOOSE i \in 1..Len(s) :
           /\ s[i] = c
           /\ \A j \in (i+1)..Len(s) : s[j] # c
    ELSE 0

basename(p) == SubSeq(p, RFind(p, "/") + 1, Len(p))

dirname(p) ==
  LET i == RFind(p, "/")
  IN IF i = 0 THEN <<>> ELSE IF i = 1 THEN <<"/">> ELSE SubSeq(p, 1, i - 1)

\* os.path.splitext: split at the last dot of the last component, leading
\* dots of that component do not count.  A pair <<root, ext>>.
splitext(p) ==
  LET sepIndex == RFind(p, "/")
      dotIndex == RFind(p, ".")
  IN IF /\ dotIndex > sepIndex
        /\ \E k \in (sepIndex + 1)..(dotIndex - 1) : p[k] # "."
       THEN <<SubSeq(p, 1, dotIndex - 1), SubSeq(p, dotIndex, Len(p))>>
       ELSE <<p, <<>> >>

\* os.path.join of two components.
join(d, f) ==
  IF f # <<>> /\ f[1] = "/" THEN f
  ELSE IF d = <<>> \/ d[Len(d)] = "/" THEN d \o f
  ELSE d \o <<"/">> \o f

DigitChar(n) ==
  CASE n = 0 -> "0" [] n = 1 -> "1" [] n = 2 -> "2" [] n = 3 -> "3"
    [] n = 4 -> "4" [] n = 5 -> "5" [] n = 6 -> "6" [] n = 7 -> "7"
    [] n = 8 -> "8" [] n = 9 -> "9"

\* str(n) for a natural number, as the f-string formats the counter.
RECURSIVE Str(_)
Str(n) == IF n < 10 THEN <<DigitChar(n)>>
          ELSE Str(n \div 10) \o <<DigitChar(n % 10)>>

(***************************************************************************)
(* prompt_combiner.extract_filename                                        *)
(***************************************************************************)
extract_filename(file_path) ==
  IF file_path = <<>> THEN NONE
  ELSE splitext(basename(file_path))[1]

(***************************************************************************)
(* save_response.generate_output_filename                                  *)
(***************************************************************************)
\* A sanitizer that lets every character through.
sanitize_identity(name) == name

sanitize(name) ==
  [i \in 1..Len(name) |->
     IF isalnum(name[i]) \/ name[i] \in {"-", "_"} THEN name[i] ELSE "_"]

generate_output_filename(output_dir, var_a_name, var_b_name, extension) ==
  LET safe_var_a == sanitize(var_a_name)
      safe_var_b == sanitize(var_b_name)
      partA == IF safe_var_a # NONE THEN safe_var_a \o <<"-">> ELSE <<>>
      partB == IF safe_var_b # NONE THEN safe_var_b \o <<"-">> ELSE <<>>
      filename == partA \o partB
                    \o <<"r","e","s","p","o","n","s","e",".">> \o extension
  IN join(output_dir, filename)

\* A collision loop whose first suffix is _2.
SuffixedPathSkipping(base_path, counter) ==
  LET ne == splitext(base_path)
  IN ne[1] \o <<"_">> \o Str(counter + 1) \o ne[2]

\* The path tried by the collision loop on its iteration number `counter`.
SuffixedPath(base_path, counter) ==
  LET ne == splitext(base_path)
  IN ne[1] \o <<"_">> \o Str(counter) \o ne[2]


(***************************************************************************)
(* State.                                                                  *)
(***************************************************************************)
VARIABLES
  pc,             \* position of the caller: main()'s next statement
  cfgFile,        \* user_inputs/user_inputs.json: absent, invalid, ...
  credential,     \* OPENAI_API_KEY is set in the environment
  model_adapter,  \* query_model.model_adapter: "None" or "LiteLLM"
  inputs,         \* kind of entry each configured path resolves to
  enumerated,     \* the two lists get_context_files built, <<>> before
  var_a_files,    \* sorted list of Variable A context files
  var_b_files,    \* sorted list of Variable B context files
  k,              \* index of the combination the loop is at
  cur,            \* locals of the process_combination call in progress
  attempts,       \* <<var_a_path, var_b_path>> of every process_combination call
  failed,         \* failed combinations, counted per failing stage
  completed,      \* main()'s completed counter
  requests,       \* outbound model requests sent so far
  report,         \* the printed final report, <<>> before it is printed
  exit_status,    \* process exit status, -1 while running
  cause,          \* why the run ended in Failed, "" otherwise
  fs,             \* files of the output directory: path -> content
  sv,             \* per process: locals of its save_response call
  saved,          \* history of returned save_response calls
  calls,          \* number of save_response calls entered so far
  removed,        \* number of files removed from the output directory
  fn              \* inputs and result of the filename derivation under study

mainVars == <<pc, cfgFile, credential, model_adapter, inputs, enumerated,
              var_a_files,
              var_b_files, k, cur, attempts, failed, completed, requests,
              report, exit_status, cause>>
saveVars == <<fs, sv, saved, calls, removed>>
vars == <<mainVars, saveVars, fn>>

Procs == {1, 2}

\* File contents.  A response is identified by the number of the call that
\* produced it (all responses have the same length); Old is the content of a
\* file that was in the output directory before the run; Empty is the content
\* of a file just created or truncated by open(path, 'w').
Old == -1
Empty == 0

Keys == {"var_a_dir", "var_b_dir", "output_dir", "system_prompt", "task_prompt"}
DirKeys == {"var_a_dir", "var_b_dir", "output_dir"}
Kinds == {"dir", "file", "missing"}

\* The validated absolute paths of the configuration.
VarADir == <<"/","A">>
VarBDir == <<"/","B">>
OutDir == <<"/","o">>

NoInputs == [key \in Keys |-> "missing"]
ValidInputs == [key \in Keys |-> IF key \in DirKeys THEN "dir" ELSE "file"]

IdleCall == [pc |-> "idle", content |-> Empty, output_path |-> <<>>,
             base_path |-> <<>>, counter |-> 0, before |-> <<>>]
NoCur == [var_a_path |-> <<>>, var_b_path |-> <<>>, var_a_name |-> <<>>,
          var_b_name |-> <<>>, response |-> Empty]
NoFn == [a |-> <<>>, b |-> <<>>, safe |-> <<>>, again |-> <<>>, base |-> <<>>,
         path |-> <<>>, counter |-> 0, stage |-> "none"]
NoFailed == [assemble |-> 0, adapter |-> 0, query |-> 0, save |-> 0]

EmptyDir == <<>>

(***************************************************************************)
(* Exceptions.  `except Exception` catches every exception but the         *)
(* BaseException-only ones.                                                *)
(***************************************************************************)
\* A handler that catches file errors only.
IsIOErrorOnly(e) == e \in {"IOError", "OSError"}

IsException(e) == e \notin {"KeyboardInterrupt", "SystemExit"}

\* main.py:226-236: every handler of main() ends in sys.exit(1), and a
\* SystemExit(1) raised below passes through them.
MainExitStatus(e) == 1


(***************************************************************************)
(* save_response (save_response.py:62-105), one step per system call.      *)
(* The steps of process p act on sv[p]; `before` is the directory as the   *)
(* call found it.                                                          *)
(***************************************************************************)
\* A collision test that never finds the path.
ExistsNever(path) == FALSE

Exists(path) == path \in DOMAIN fs

WriteFile(path, content) ==
  [q \in DOMAIN fs \cup {path} |-> IF q = path THEN content ELSE fs[q]]

\* save_response.py:12-23: mkdir(parents=True, exist_ok=True) succeeds on a
\* directory and on a missing path, and raises when the path is a file.
ensure_output_dir(kind) == kind # "file"

\* save_response.py:84-90: entry of the call up to the first loop test.
save_enter(p, content, output_dir, kind, var_a_name, var_b_name) ==
  LET output_path == generate_output_filename(output_dir, var_a_name,
                                              var_b_name, Txt)
  IN sv' = [sv EXCEPT ![p] =
              [pc |-> IF ensure_output_dir(kind) THEN "check" ELSE "raised",
               content |-> content,
               output_path |-> output_path,
               base_path |-> output_path,
               counter |-> 1,
               before |-> fs]]

\* The destination of the write: open(output_path, 'w') creates the file or
\* truncates the one that is there.
OpenForWrite(path) == WriteFile(path, Empty)

\* save_response.py:91-94: one test of the while condition; when the path
\* exists, one execution of the loop body.
SaveCheck(p) ==
  /\ sv[p].pc = "check"
  /\ IF Exists(sv[p].output_path)
       THEN sv' = [sv EXCEPT
                     ![p].output_path = SuffixedPath(sv[p].base_path, sv[p].counter),
                     ![p].counter = sv[p].counter + 1]
       ELSE sv' = [sv EXCEPT ![p].pc = "open"]
  /\ UNCHANGED <<fs, saved, calls, removed, mainVars, fn>>

\* save_response.py:96: open(output_path, 'w').
SaveOpen(p) ==
  /\ sv[p].pc = "open"
  /\ fs' = OpenForWrite(sv[p].output_path)
  /\ sv' = [sv EXCEPT ![p].pc = "write"]
  /\ UNCHANGED <<saved, calls, removed, mainVars, fn>>

\* save_response.py:96,102-105: open fails (permissions, disk full); the
\* error is re-raised as IOError.
SaveOpenFails(p) ==
  /\ sv[p].pc = "open"
  /\ sv' = [sv EXCEPT ![p].pc = "raised"]
  /\ UNCHANGED <<fs, saved, calls, removed, mainVars, fn>>

\* save_response.py:97-100: f.write(content), close, return output_path.
SaveWrite(p) ==
  /\ sv[p].pc = "write"
  /\ fs' = WriteFile(sv[p].output_path, sv[p].content)
  /\ sv' = [sv EXCEPT ![p].pc = "returned"]
  /\ saved' = Append(saved, [proc |-> p, path |-> sv[p].output_path,
                             base |-> sv[p].base_path,
                             content |-> sv[p].content,
                             before |-> sv[p].before,
                             after |-> fs'])
  /\ UNCHANGED <<calls, removed, mainVars, fn>>


(***************************************************************************)
(* A caller of the save_response module: it calls save_response with names *)
(* of its choice, one call at a time per process, on an output directory   *)
(* that may already hold files.                                            *)
(***************************************************************************)
\* Names the caller passes; "a?" and "a_" sanitize to the same name.
SaveNamesA == {NONE, <<"a">>, <<"a","?">>, <<"a","_">>}
SaveNamesB == {NONE, <<"a">>}

AResponse == join(OutDir, <<"a","-","r","e","s","p","o","n","s","e",".","t","x","t">>)

\* Output directories a run may start with.
InitialDirs ==
  { EmptyDir,
    [q \in {AResponse} |-> Old],
    [q \in {AResponse, SuffixedPath(AResponse, 1)} |-> Old],
    [q \in {AResponse, SuffixedPath(AResponse, 2)} |-> Old],
    [q \in {SuffixedPath(AResponse, 2)} |-> Old] }

LibCall(p) ==
  /\ pc = "lib"
  /\ sv[p].pc = "idle"
  /\ calls < MaxSaves
  /\ calls' = calls + 1
  /\ \E a \in SaveNamesA, b \in SaveNamesB :
       save_enter(p, calls + 1, OutDir, "dir", a, b)
  /\ UNCHANGED <<fs, saved, removed, mainVars, fn>>

LibReturn(p) ==
  /\ pc = "lib"
  /\ sv[p].pc \in {"returned", "raised"}
  /\ sv' = [sv EXCEPT ![p] = IdleCall]
  /\ UNCHANGED <<fs, saved, calls, removed, mainVars, fn>>

InitLib ==
  /\ pc = "lib"
  /\ cfgFile = "complete"
  /\ credential = TRUE
  /\ model_adapter = "None"
  /\ inputs = ValidInputs
  /\ enumerated = <<>>
  /\ var_a_files = <<>>
  /\ var_b_files = <<>>
  /\ k = 0
  /\ cur = NoCur
  /\ attempts = <<>>
  /\ failed = NoFailed
  /\ completed = 0
  /\ requests = 0
  /\ report = <<>>
  /\ exit_status = -1
  /\ cause = ""
  /\ fs \in InitialDirs
  /\ sv = [p \in Procs |-> IdleCall]
  /\ saved = <<>>
  /\ calls = 0
  /\ removed = 0
  /\ fn = NoFn

\* One process: the calls of one sequential run.
NextSave ==
  \/ LibCall(1)
  \/ SaveCheck(1)
  \/ SaveOpen(1)
  \/ SaveOpenFails(1)
  \/ SaveWrite(1)
  \/ LibReturn(1)

SpecSave == InitLib /\ [][NextSave]_vars

\* Two runs (processes) on the same output directory, steps interleaved.
NextConc ==
  \E p \in Procs :
    \/ LibCall(p)
    \/ SaveCheck(p)
    \/ SaveOpen(p)
    \/ SaveOpenFails(p)
    \/ SaveWrite(p)
    \/ LibReturn(p)

SpecConc == InitLib /\ [][NextConc]_vars


(***************************************************************************)
(* get_inputs.py                                                           *)
(***************************************************************************)
\* A validation that accepts whatever the path resolves to.
validate_directory_unchecked(kind) == TRUE

\* get_inputs.py:14-33: os.path.isdir of the resolved path.
validate_directory(kind) == kind = "dir"

\* get_inputs.py:35-54: os.path.isfile of the resolved path.
validate_file(kind) == kind = "file"

\* get_inputs.py:87-93: the five validations of load_user_inputs_from_json.
Validated(kinds) ==
  /\ validate_directory(kinds["var_a_dir"])
  /\ validate_directory(kinds["var_b_dir"])
  /\ validate_directory(kinds["output_dir"])
  /\ validate_file(kinds["system_prompt"])
  /\ validate_file(kinds["task_prompt"])

\* Code points order the characters, as sorted() compares strings.
CodeOrder ==
  <<"-", ".", "/", "0","1","2","3","4","5","6","7","8","9", "?",
    "A","B","C","D","E","F","G","H","I","J","K","L","M","N","O","P","Q","R",
    "S","T","U","V","W","X","Y","Z", "_",
    "a","b","c","d","e","f","g","h","i","j","k","l","m","n","o","p","q","r",
    "s","t","u","v","w","x","y","z", "U+00E9", "U+0663">>

Ord(c) == CHOOSE i \in 1..Len(CodeOrder) : CodeOrder[i] = c

RECURSIVE StrLess(_, _)
StrLess(s, t) ==
  IF t = <<>> THEN FALSE
  ELSE IF s = <<>> THEN TRUE
  ELSE IF Ord(s[1]) # Ord(t[1]) THEN Ord(s[1]) < Ord(t[1])
  ELSE StrLess(Tail(s), Tail(t))

\* sorted() of a set of distinct strings.
Sorted(S) ==
  CHOOSE s \in [1..Cardinality(S) -> S] :
    \A i, j \in 1..Cardinality(S) : i < j => StrLess(s[i], s[j])

\* get_inputs.py:143-148: the regular files of the listing whose lower-cased
\* name ends in .txt or .md, as sorted full paths.
get_txt_md_files(directory, listing) ==
  Sorted({ join(directory, e.name) : e \in
           { e \in listing :
               /\ e.isfile
               /\ \/ EndsWith(Lower(e.name), DotTxt)
                  \/ EndsWith(Lower(e.name), DotMd) } })

\* Entries a context directory may hold: eligible files a1.txt, a2.MD, ...,
\* a file of another type and a sub-directory with an eligible name.
FileName(letter, i) ==
  <<letter, DigitChar(i)>> \o (IF i % 2 = 1 THEN DotTxt ELSE <<".","M","D">>)

Entries(letter) ==
  { [name |-> FileName(letter, i), isfile |-> TRUE] : i \in 1..MaxFiles }
    \cup { [name |-> <<"n",".","p","d","f">>, isfile |-> TRUE],
           [name |-> <<"s",".","t","x","t">>, isfile |-> FALSE] }

(***************************************************************************)
(* main.py                                                                 *)
(***************************************************************************)
\* select_model.py:37-44: LiteLLMAdapter._validate_environment.
validate_environment(cred) == cred

\* A loop that pairs the two lists element by element.
CombosZipped(a_files, b_files) ==
  LET m == Len(a_files)
      n == Len(b_files)
  IN [x \in 1..(IF m <= n THEN m ELSE n) |-> << a_files[x], b_files[x] >>]

\* main.py:143-218: the <<var_a_path, var_b_path>> pairs main() passes to
\* process_combination, in order; an absent axis is passed as None.
Combos(a_files, b_files) ==
  LET m == Len(a_files)
      n == Len(b_files)
  IN IF m = 0 /\ n = 0 THEN << << <<>>, <<>> >> >>
     ELSE IF m = 0 THEN [j \in 1..n |-> << <<>>, b_files[j] >>]
     ELSE IF n = 0 THEN [i \in 1..m |-> << a_files[i], <<>> >>]
     ELSE [x \in 1..(m * n) |->
             << a_files[((x - 1) \div n) + 1], b_files[((x - 1) % n) + 1] >>]

total_combinations == Len(Combos(var_a_files, var_b_files))

\* main.py:226-236: the run ends with status 1.
Fail(e) ==
  /\ pc' = "Failed"
  /\ exit_status' = MainExitStatus(e)
  /\ cause' = e

\* main.py:113-115: process_combination's handler returns None, and the loop
\* of main() goes on with the next combination; what the handler does not
\* catch reaches the handlers of main().
Caught(e, stage) ==
  IF IsException(e)
    THEN /\ failed' = [failed EXCEPT ![stage] = @ + 1]
         /\ k' = k + 1
         /\ cur' = NoCur
         /\ pc' = "loop"
         /\ UNCHANGED <<exit_status, cause>>
    ELSE /\ Fail(e)
         /\ UNCHANGED <<failed, k, cur>>

\* main.py:51-67, select_model.py:29-44,88-103.
SetupModel ==
  /\ pc = "setup_model"
  /\ IF validate_environment(credential)
       THEN /\ model_adapter' = "LiteLLM"
            /\ pc' = "get_user_inputs"
            /\ UNCHANGED <<exit_status, cause>>
       ELSE /\ Fail("EnvironmentError")
            /\ UNCHANGED model_adapter
  /\ UNCHANGED <<cfgFile, credential, inputs, enumerated, var_a_files,
                 var_b_files, k, cur, attempts, failed, completed, requests,
                 report, saveVars, fn>>

\* main.py:130, get_inputs.py:56-116.
GetUserInputs ==
  /\ pc = "get_user_inputs"
  /\ CASE cfgFile = "absent" ->
            /\ cfgFile' = "template"
            /\ Fail("ConfigMissing")
            /\ UNCHANGED inputs
       [] cfgFile \in {"invalid", "missing_key"} ->
            /\ Fail("ConfigError")
            /\ UNCHANGED <<cfgFile, inputs>>
       [] OTHER ->
            \E kinds \in [Keys -> Kinds] :
              /\ inputs' = kinds
              /\ IF Validated(kinds)
                   THEN /\ pc' = "get_context_files"
                        /\ UNCHANGED <<exit_status, cause>>
                   ELSE Fail("ConfigError")
              /\ UNCHANGED cfgFile
  /\ UNCHANGED <<credential, model_adapter, enumerated, var_a_files,
                 var_b_files, k, cur, attempts, failed, completed, requests,
                 report, saveVars, fn>>

\* main.py:132-141, get_inputs.py:130-159.  os.listdir raises on a path that
\* is no directory or cannot be read.
GetContextFiles ==
  /\ pc = "get_context_files"
  /\ \E la \in SUBSET Entries("a"), lb \in SUBSET Entries("x"),
        listable \in BOOLEAN :
       LET a_files == get_txt_md_files(VarADir, la)
           b_files == get_txt_md_files(VarBDir, lb)
       IN IF \/ inputs["var_a_dir"] # "dir"
             \/ inputs["var_b_dir"] # "dir"
             \/ ~listable
            THEN /\ Fail("Exception")
                 /\ UNCHANGED <<enumerated, var_a_files, var_b_files, k>>
            ELSE /\ enumerated' = <<a_files, b_files>>
                 /\ IF a_files = <<>> \/ b_files = <<>>
                      THEN /\ Fail("ValueError")
                           /\ UNCHANGED <<var_a_files, var_b_files, k>>
                      ELSE /\ var_a_files' = a_files
                           /\ var_b_files' = b_files
                           /\ k' = 1
                           /\ pc' = "loop"
                           /\ UNCHANGED <<exit_status, cause>>
  /\ UNCHANGED <<cfgFile, credential, model_adapter, inputs, cur, attempts,
                 failed, completed, requests, report, saveVars, fn>>


\* main.py:207-215 (and 146, 166, 187): the loop header; the next pair is
\* passed to process_combination, or the loop is over.
LoopNext ==
  /\ pc = "loop"
  /\ IF k <= total_combinations
       THEN /\ attempts' = Append(attempts, Combos(var_a_files, var_b_files)[k])
            /\ cur' = [NoCur EXCEPT
                         !.var_a_path = Combos(var_a_files, var_b_files)[k][1],
                         !.var_b_path = Combos(var_a_files, var_b_files)[k][2]]
            /\ pc' = "combine_prompts"
       ELSE /\ pc' = "report"
            /\ UNCHANGED <<attempts, cur>>
  /\ UNCHANGED <<cfgFile, credential, model_adapter, inputs, enumerated,
                 var_a_files, var_b_files, k, failed, completed, requests,
                 report, exit_status, cause, saveVars, fn>>

\* A process_combination that saves without having queried the model.
CombinePromptsSkipsQuery ==
  /\ pc = "combine_prompts"
  /\ cur' = [cur EXCEPT
               !.var_a_name = extract_filename(cur.var_a_path),
               !.var_b_name = extract_filename(cur.var_b_path)]
  /\ pc' = "save_response"
  /\ UNCHANGED <<failed, k, exit_status, cause>>
  /\ UNCHANGED <<cfgFile, credential, model_adapter, inputs, enumerated,
                 var_a_files, var_b_files, attempts, completed, requests,
                 report, saveVars, fn>>

\* main.py:90-95, prompt_combiner.py:31-67: the four reads may fail.
CombinePrompts ==
  /\ pc = "combine_prompts"
  /\ \E readable \in BOOLEAN :
       IF /\ readable
          /\ inputs["system_prompt"] = "file"
          /\ inputs["task_prompt"] = "file"
         THEN /\ cur' = [cur EXCEPT
                           !.var_a_name = extract_filename(cur.var_a_path),
                           !.var_b_name = extract_filename(cur.var_b_path)]
              /\ pc' = "query_model"
              /\ UNCHANGED <<failed, k, exit_status, cause>>
         ELSE Caught("OSError", "assemble")
  /\ UNCHANGED <<cfgFile, credential, model_adapter, inputs, enumerated,
                 var_a_files, var_b_files, attempts, completed, requests,
                 report, saveVars, fn>>

\* A model client that sends a failed request a second time.
QueryModelRetrying ==
  /\ pc = "query_model"
  /\ \E ok \in BOOLEAN :
       IF ok
         THEN /\ requests' = requests + 1
              /\ cur' = [cur EXCEPT !.response = requests + 1]
              /\ pc' = "save_response"
              /\ UNCHANGED <<failed, k, exit_status, cause>>
         ELSE /\ requests' = requests + 2
              /\ Caught("Exception", "query")
  /\ UNCHANGED <<cfgFile, credential, model_adapter, inputs, enumerated,
                 var_a_files, var_b_files, attempts, completed, report,
                 saveVars, fn>>

\* main.py:100, query_model.py:24-51, select_model.py:46-86: without an
\* adapter RuntimeError is raised and nothing is sent; with one, one request
\* is sent, and it returns a response or raises.
QueryModel ==
  /\ pc = "query_model"
  /\ IF model_adapter = "None"
       THEN /\ Caught("RuntimeError", "adapter")
            /\ UNCHANGED requests
       ELSE /\ requests' = requests + 1
            /\ \E ok \in BOOLEAN :
                 IF ok
                   THEN /\ cur' = [cur EXCEPT !.response = requests + 1]
                        /\ pc' = "save_response"
                        /\ UNCHANGED <<failed, k, exit_status, cause>>
                   ELSE Caught("Exception", "query")
  /\ UNCHANGED <<cfgFile, credential, model_adapter, inputs, enumerated,
                 var_a_files, var_b_files, attempts, completed, report,
                 saveVars, fn>>

\* main.py:103-108: the call of save_response.
SaveCall ==
  /\ pc = "save_response"
  /\ save_enter(1, cur.response, OutDir, inputs["output_dir"],
                cur.var_a_name, cur.var_b_name)
  /\ calls' = calls + 1
  /\ pc' = "saving"
  /\ UNCHANGED <<cfgFile, credential, model_adapter, inputs, enumerated,
                 var_a_files, var_b_files, k, cur, attempts, failed,
                 completed, requests, report, exit_status, cause, fs, saved,
                 removed, fn>>

\* main.py:110-111, 216-218: save_response returned a path; the combination
\* is counted.
SaveReturned ==
  /\ pc = "saving"
  /\ sv[1].pc = "returned"
  /\ sv' = [sv EXCEPT ![1] = IdleCall]
  /\ completed' = completed + 1
  /\ k' = k + 1
  /\ cur' = NoCur
  /\ pc' = "loop"
  /\ UNCHANGED <<cfgFile, credential, model_adapter, inputs, enumerated,
                 var_a_files, var_b_files, attempts, failed, requests, report,
                 exit_status, cause, fs, saved, calls, removed, fn>>

\* save_response.py:102-105, main.py:113-115: save_response raised IOError.
SaveRaised ==
  /\ pc = "saving"
  /\ sv[1].pc = "raised"
  /\ sv' = [sv EXCEPT ![1] = IdleCall]
  /\ Caught("IOError", "save")
  /\ UNCHANGED <<cfgFile, credential, model_adapter, inputs, enumerated,
                 var_a_files, var_b_files, attempts, completed, requests,
                 report, fs, saved, calls, removed, fn>>

\* main.py:219-224 (and 156-160, 177-181, 198-202): the final report.
Report ==
  /\ pc = "report"
  /\ report' = [completed |-> completed, total |-> total_combinations]
  /\ pc' = "return"
  /\ UNCHANGED <<cfgFile, credential, model_adapter, inputs, enumerated,
                 var_a_files, var_b_files, k, cur, attempts, failed,
                 completed, requests, exit_status, cause, saveVars, fn>>

\* main.py:238-239: main() returns and the interpreter exits with status 0.
Return ==
  /\ pc = "return"
  /\ pc' = "Done"
  /\ exit_status' = 0
  /\ UNCHANGED <<cfgFile, credential, model_adapter, inputs, enumerated,
                 var_a_files, var_b_files, k, cur, attempts, failed,
                 completed, requests, report, cause, saveVars, fn>>

Running == pc \notin {"Done", "Failed", "lib", "name"}

\* main.py:230-232: Ctrl-C at any point of the run; no handler below main()
\* catches KeyboardInterrupt, so a save_response call in progress is left
\* where it is and the files stay as they are.
Interrupt ==
  /\ Running
  /\ Fail("KeyboardInterrupt")
  /\ sv' = [sv EXCEPT ![1] = IdleCall]
  /\ UNCHANGED <<cfgFile, credential, model_adapter, inputs, enumerated,
                 var_a_files, var_b_files, k, cur, attempts, failed,
                 completed, requests, report, fs, saved, calls, removed, fn>>

\* Output directories a run of main() may start with.
FirstResponse ==
  generate_output_filename(OutDir, extract_filename(FileName("a", 1)),
                           extract_filename(FileName("x", 1)), Txt)

InitialDirsMain == { EmptyDir, [q \in {FirstResponse} |-> Old] }

Init ==
  /\ pc = "setup_model"
  /\ cfgFile \in {"absent", "invalid", "missing_key", "complete"}
  /\ credential \in BOOLEAN
  /\ model_adapter = "None"
  /\ inputs = NoInputs
  /\ enumerated = <<>>
  /\ var_a_files = <<>>
  /\ var_b_files = <<>>
  /\ k = 0
  /\ cur = NoCur
  /\ attempts = <<>>
  /\ failed = NoFailed
  /\ completed = 0
  /\ requests = 0
  /\ report = <<>>
  /\ exit_status = -1
  /\ cause = ""
  /\ fs \in InitialDirsMain
  /\ sv = [p \in Procs |-> IdleCall]
  /\ saved = <<>>
  /\ calls = 0
  /\ removed = 0
  /\ fn = NoFn

Next ==
  \/ SetupModel
  \/ GetUserInputs
  \/ GetContextFiles
  \/ LoopNext
  \/ CombinePrompts
  \/ QueryModel
  \/ SaveCall
  \/ SaveCheck(1)
  \/ SaveOpen(1)
  \/ SaveOpenFails(1)
  \/ SaveWrite(1)
  \/ SaveReturned
  \/ SaveRaised
  \/ Report
  \/ Return
  \/ Interrupt

Spec == Init /\ [][Next]_vars


(***************************************************************************)
(* A caller that drives process_combination over the pairs as the loop of  *)
(* main() does, without having run setup_model first: the module variable  *)
(* query_model.model_adapter is None, as at import (query_model.py:12),    *)
(* until set_model_adapter is called.                                      *)
(***************************************************************************)
\* query_model.py:14-22.
SetModelAdapter ==
  /\ pc = "loop"
  /\ model_adapter = "None"
  /\ model_adapter' = "LiteLLM"
  /\ UNCHANGED <<pc, cfgFile, credential, inputs, enumerated, var_a_files,
                 var_b_files, k, cur, attempts, failed, completed, requests,
                 report, exit_status, cause, saveVars, fn>>

NonEmptyLists(letter, directory) ==
  { get_txt_md_files(directory, l) : l \in SUBSET Entries(letter) } \ { <<>> }

InitUnbound ==
  /\ pc = "loop"
  /\ cfgFile = "complete"
  /\ credential \in BOOLEAN
  /\ model_adapter = "None"
  /\ inputs = ValidInputs
  /\ var_a_files \in NonEmptyLists("a", VarADir)
  /\ var_b_files \in NonEmptyLists("x", VarBDir)
  /\ enumerated = <<var_a_files, var_b_files>>
  /\ k = 1
  /\ cur = NoCur
  /\ attempts = <<>>
  /\ failed = NoFailed
  /\ completed = 0
  /\ requests = 0
  /\ report = <<>>
  /\ exit_status = -1
  /\ cause = ""
  /\ fs = EmptyDir
  /\ sv = [p \in Procs |-> IdleCall]
  /\ saved = <<>>
  /\ calls = 0
  /\ removed = 0
  /\ fn = NoFn

NextUnbound ==
  \/ SetModelAdapter
  \/ LoopNext
  \/ CombinePrompts
  \/ QueryModel
  \/ SaveCall
  \/ SaveCheck(1)
  \/ SaveOpen(1)
  \/ SaveOpenFails(1)
  \/ SaveWrite(1)
  \/ SaveReturned
  \/ SaveRaised
  \/ Report
  \/ Return

SpecUnbound == InitUnbound /\ [][NextUnbound]_vars

(***************************************************************************)
(* The filename derivation as a function of the two names: the inputs are  *)
(* drawn from all short strings over characters of every class (letters,   *)
(* digits, separators, dots, characters outside ASCII).                    *)
(***************************************************************************)
NameChars == {"a", "Z", "7", "-", "_", ".", "/", "?", "U+00E9", "U+0663"}

Strings(chars, n) == UNION { [1..len -> chars] : len \in 0..n }

FewNames == {NONE, <<>>, <<"b">>, <<"/">>, <<".",".">>, <<"U+0663">>}
AllNames == Strings(NameChars, MaxNameLen) \cup {NONE}

InitNames ==
  /\ pc = "name"
  /\ cfgFile = "complete"
  /\ credential = TRUE
  /\ model_adapter = "None"
  /\ inputs = ValidInputs
  /\ enumerated = <<>>
  /\ var_a_files = <<>>
  /\ var_b_files = <<>>
  /\ k = 0
  /\ cur = NoCur
  /\ attempts = <<>>
  /\ failed = NoFailed
  /\ completed = 0
  /\ requests = 0
  /\ report = <<>>
  /\ exit_status = -1
  /\ cause = ""
  /\ fs = EmptyDir
  /\ sv = [p \in Procs |-> IdleCall]
  /\ saved = <<>>
  /\ calls = 0
  /\ removed = 0
  /\ \E a \in AllNames, b \in AllNames :
       /\ a \in FewNames \/ b \in FewNames
       /\ fn = [a |-> a, b |-> b, safe |-> <<>>, again |-> <<>>,
                base |-> <<>>, path |-> <<>>, counter |-> 0,
                stage |-> "input"]

\* save_response.py:43-47: sanitize applied to a name, then to its result.
Sanitize ==
  /\ fn.stage = "input"
  /\ fn' = [fn EXCEPT !.safe = sanitize(fn.a),
                      !.again = sanitize(sanitize(fn.a)),
                      !.stage = "sanitized"]
  /\ UNCHANGED <<mainVars, saveVars>>

\* save_response.py:86: generate_output_filename with the default extension.
GenerateName ==
  /\ fn.stage = "sanitized"
  /\ fn' = [fn EXCEPT
              !.base = generate_output_filename(OutDir, fn.a, fn.b, Txt),
              !.path = generate_output_filename(OutDir, fn.a, fn.b, Txt),
              !.counter = 1,
              !.stage = "generated"]
  /\ UNCHANGED <<mainVars, saveVars>>

\* save_response.py:92-94: one execution of the collision loop's body.
NextSuffix ==
  /\ fn.stage \in {"generated", "suffixed"}
  /\ fn.counter <= MaxSaves
  /\ fn' = [fn EXCEPT !.path = SuffixedPath(fn.base, fn.counter),
                      !.counter = fn.counter + 1,
                      !.stage = "suffixed"]
  /\ UNCHANGED <<mainVars, saveVars>>

NextNames ==
  \/ Sanitize
  \/ GenerateName
  \/ NextSuffix

SpecNames == InitNames /\ [][NextNames]_vars


(***************************************************************************)
(* Properties.                                                             *)
(***************************************************************************)
Max(x, y) == IF x >= y THEN x ELSE y

Terminal == pc \in {"Done", "Failed"}

FailedTotal == failed.assemble + failed.adapter + failed.query + failed.save

\* C1: with both context sets non-empty, of sizes m and n, main() calls
\* process_combination once per pair of the cross product -- never a pair
\* twice, never more than m*n calls, and all m*n pairs once the loop is over --
\* and the completed counter, also the one of the printed report, is at most
\* m*n.
C1_CrossProduct ==
  LET m == Len(var_a_files)
      n == Len(var_b_files)
  IN (pc \notin {"lib", "name"} /\ m > 0 /\ n > 0) =>
       /\ Len(attempts) <= m * n
       /\ completed <= Len(attempts)
       /\ completed <= m * n
       /\ \A x, y \in 1..Len(attempts) : x < y => attempts[x] # attempts[y]
       /\ \A x \in 1..Len(attempts) :
            \E i \in 1..m, j \in 1..n :
              attempts[x] = <<var_a_files[i], var_b_files[j]>>
       /\ pc \in {"report", "return", "Done"} =>
            /\ Len(attempts) = m * n
            /\ \A i \in 1..m, j \in 1..n :
                 \E x \in 1..Len(attempts) :
                   attempts[x] = <<var_a_files[i], var_b_files[j]>>
       /\ report # <<>> =>
            /\ report.total = m * n
            /\ report.completed <= m * n

\* A 2 x 2 run that ended with three of its four combinations completed.
C1_Witness ==
  /\ pc = "Done"
  /\ Len(var_a_files) = 2
  /\ Len(var_b_files) = 2
  /\ Len(attempts) = 4
  /\ report # <<>>
  /\ report.completed = 3

\* C2: an error raised by combine_prompts, query_model or save_response for one
\* combination never ends the run (inside the loop only an interrupt does):
\* once the loop is over every combination was attempted and the report shows
\* the attempted combinations minus the failed ones, hence m*n - 1 when the
\* model call of exactly one combination failed and nothing else did.
C2_FailureTolerated ==
  LET m == Len(var_a_files)
      n == Len(var_b_files)
  IN /\ (pc = "Failed" /\ attempts # <<>>) => cause = "KeyboardInterrupt"
     /\ (pc \in {"return", "Done"} /\ m > 0 /\ n > 0) =>
          /\ Len(attempts) = m * n
          /\ report.completed = m * n - FailedTotal
          /\ (failed.query = 1 /\ FailedTotal = 1) => report.completed = m * n - 1

\* A 2 x 2 run in which the first model call failed and the three combinations
\* after it were queried and saved.
C2_Witness ==
  /\ pc = "Done"
  /\ Len(attempts) = 4
  /\ failed.query = 1
  /\ FailedTotal = 1
  /\ report.completed = 3
  /\ Len(saved) = 3
  /\ saved[1].content = 2

\* C3: when a context directory holds no .txt/.md file the run degrades instead
\* of aborting: a run that enumerated sets of sizes m and n, one of them 0, and
\* was not interrupted ends in Done having attempted max(1,m)*max(1,n)
\* combinations.
C3_DegradesOnEmpty ==
  (/\ Terminal
   /\ enumerated # <<>>
   /\ cause # "KeyboardInterrupt"
   /\ Len(enumerated[1]) = 0 \/ Len(enumerated[2]) = 0)
  => /\ pc = "Done"
     /\ Len(attempts) = Max(1, Len(enumerated[1])) * Max(1, Len(enumerated[2]))

\* C4: every run that starts with the configuration file absent and is not
\* interrupted writes the template at the configuration path and exits with
\* status 1, without enumerating the directories or attempting a combination.
C4_TemplateWritten ==
  (Terminal /\ cfgFile \in {"absent", "template"} /\ cause # "KeyboardInterrupt")
  => /\ cfgFile = "template"
     /\ exit_status = 1
     /\ enumerated = <<>>
     /\ attempts = <<>>

\* C5: a model request is sent, and save_response is entered, only after the
\* credential was found and the configuration was loaded with its five keys
\* and every path of the expected kind; a run without the credential, with a
\* key missing or with a path of the wrong kind ends with status 1, no request
\* sent and no output file written.
C5_NoRequestBeforeValidation ==
  /\ (requests > 0 \/ calls > 0 \/ attempts # <<>>) =>
       /\ credential
       /\ cfgFile = "complete"
       /\ inputs = ValidInputs
  /\ (/\ Terminal
      /\ \/ ~credential
         \/ cfgFile # "complete"
         \/ inputs # ValidInputs)
     => /\ exit_status = 1
        /\ requests = 0
        /\ calls = 0
        /\ saved = <<>>

\* The configuration is complete and the credential present, but the output
\* path is a regular file: the run has ended at the validation.
C5_Witness ==
  /\ pc = "Failed"
  /\ credential
  /\ cfgFile = "complete"
  /\ inputs["output_dir"] = "file"
  /\ inputs["var_a_dir"] = "dir"
  /\ cause = "ConfigError"

\* C8: a run ends in Done with status 0 after the report was printed, or in
\* Failed with status 1; and a run that loaded its configuration and enumerated
\* its context sets (empty ones included) fails only when interrupted.
C8_ExitStates ==
  /\ pc = "Done" => exit_status = 0 /\ report # <<>>
  /\ pc = "Failed" => exit_status = 1
  /\ (pc = "Failed" /\ enumerated # <<>>) => cause = "KeyboardInterrupt"

\* C9: an adapter-not-configured error is fatal: as soon as query_model has
\* raised it the run is in Failed with status 1, and it is never counted as a
\* failed combination with the loop going on.
C9_UnboundAdapterFatal ==
  failed.adapter > 0 => pc = "Failed" /\ exit_status = 1


\* C6: within one sequential run save_response never writes to a path that
\* exists: the returned paths are pairwise distinct, no returned path was in
\* the directory when its call began, every file that was there keeps its
\* content and the new file holds the response; and a second save of a name
\* whose first save got <name>-response.txt gets <name>-response_1.txt (when
\* that path is free).
AResponse1 ==
  <<"/","o","/","a","-","r","e","s","p","o","n","s","e","_","1",".","t","x","t">>

C6_NoOverwrite ==
  /\ \A x \in 1..Len(saved) :
       /\ saved[x].path \notin DOMAIN saved[x].before
       /\ saved[x].path \in DOMAIN saved[x].after
       /\ saved[x].after[saved[x].path] = saved[x].content
       /\ \A q \in DOMAIN saved[x].before :
            /\ q \in DOMAIN saved[x].after
            /\ saved[x].after[q] = saved[x].before[q]
  /\ \A x, y \in 1..Len(saved) :
       x < y =>
         /\ saved[x].path # saved[y].path
         /\ (/\ saved[x].base = saved[y].base
             /\ saved[x].path = saved[x].base
             /\ SuffixedPath(saved[x].base, 1) \notin DOMAIN saved[y].before)
            => saved[y].path = SuffixedPath(saved[x].base, 1)
         /\ (/\ saved[x].path = AResponse
             /\ saved[y].base = AResponse
             /\ AResponse1 \notin DOMAIN saved[y].before)
            => saved[y].path = AResponse1

\* The name "a" saved three times into a directory that held another file:
\* a-response.txt, a-response_1.txt, then a-response_3.txt past the old
\* a-response_2.txt.
C6_Witness ==
  /\ Len(saved) = 3
  /\ saved[1].path = AResponse
  /\ saved[2].path = AResponse1
  /\ saved[3].path = SuffixedPath(AResponse, 3)
  /\ SuffixedPath(AResponse, 2) \in DOMAIN fs
  /\ fs[SuffixedPath(AResponse, 2)] = Old

WordChars == AsciiLetters \cup AsciiDigits \cup {"-", "_"}

\* ^[A-Za-z0-9_-]+\.txt$
MatchesTxtPattern(base) ==
  /\ Len(base) > Len(DotTxt)
  /\ EndsWith(base, DotTxt)
  /\ \A i \in 1..(Len(base) - Len(DotTxt)) : base[i] \in WordChars

\* One or more characters that are alphanumeric (in or outside ASCII), "-" or
\* "_", then .txt.
MatchesUnicodeTxtPattern(base) ==
  /\ Len(base) > Len(DotTxt)
  /\ EndsWith(base, DotTxt)
  /\ \A i \in 1..(Len(base) - Len(DotTxt)) :
       base[i] \in WordChars \cup NonAsciiAlnum

AsciiOnly(name) == \A i \in 1..Len(name) : name[i] \notin NonAsciiAlnum

\* C7 (as claimed): for every pair of names the base name of the output path
\* matches ^[A-Za-z0-9_-]+\.txt$ (response.txt included), with or without the
\* collision suffix, the path stays in the output directory, and sanitizing a
\* sanitized name changes nothing.
C7_AsciiPattern ==
  /\ fn.stage \in {"generated", "suffixed"} =>
       /\ MatchesTxtPattern(basename(fn.path))
       /\ dirname(fn.path) = OutDir
  /\ fn.stage # "input" => fn.again = fn.safe

\* C7 (amended): for every pair of names the base name of the output path is
\* one or more characters that are alphanumeric in the sense of str.isalnum
\* (letters and digits outside ASCII included), "-" or "_", followed by .txt;
\* it matches ^[A-Za-z0-9_-]+\.txt$ when the names hold no alphanumeric
\* character outside ASCII; the path stays in the output directory; and
\* sanitizing a sanitized name changes nothing.
C7_UnicodePattern ==
  /\ fn.stage \in {"generated", "suffixed"} =>
       /\ MatchesUnicodeTxtPattern(basename(fn.path))
       /\ (AsciiOnly(fn.a) /\ AsciiOnly(fn.b)) => MatchesTxtPattern(basename(fn.path))
       /\ dirname(fn.path) = OutDir
       /\ \A i \in 1..Len(basename(fn.path)) : basename(fn.path)[i] # "/"
  /\ fn.stage # "input" => fn.again = fn.safe

\* The names "/e-acute" and "..": separator and dots are replaced, the letter
\* outside ASCII is kept, and the suffixed path is /o/_<e-acute>-__-response_1.txt.
C7_Witness ==
  /\ fn.stage = "suffixed"
  /\ fn.a = <<"/", "U+00E9">>
  /\ fn.b = <<".", ".">>
  /\ fn.safe = <<"_", "U+00E9">>
  /\ fn.path = <<"/","o","/","_","U+00E9","-","_","_","-","r","e","s","p","o",
                 "n","s","e","_","1",".","t","x","t">>

\* C10: when two processes run save_response on the same output directory the
\* returned paths are pairwise distinct and every returned path still holds
\* the response its call wrote.
C10_NoClobber ==
  /\ \A x, y \in 1..Len(saved) : x < y => saved[x].path # saved[y].path
  /\ \A x \in 1..Len(saved) :
       /\ saved[x].path \in DOMAIN fs
       /\ fs[saved[x].path] = saved[x].content


(***************************************************************************)
(* One sequential run of save_response calls on an output directory from   *)
(* which files the run has written are removed between two calls (by the   *)
(* user, or by another program): os.path.exists (save_response.py:91) sees *)
(* the directory as it is when the call is made.                           *)
(***************************************************************************)
DeleteFile ==
  /\ pc = "lib"
  /\ sv[1].pc = "idle"
  /\ removed < MaxDeletes
  /\ removed' = removed + 1
  /\ \E q \in DOMAIN fs \cap { saved[x].path : x \in 1..Len(saved) } :
       fs' = [r \in DOMAIN fs \ {q} |-> fs[r]]
  /\ UNCHANGED <<sv, saved, calls, mainVars, fn>>

NextSaveDelete ==
  \/ LibCall(1)
  \/ SaveCheck(1)
  \/ SaveOpen(1)
  \/ SaveOpenFails(1)
  \/ SaveWrite(1)
  \/ LibReturn(1)
  \/ DeleteFile

SpecSaveDelete == InitLib /\ [][NextSaveDelete]_vars

\* <name>_N<ext> for a base path that ends in .txt, written out.
Numbered(base, n) ==
  SubSeq(base, 1, Len(base) - Len(DotTxt)) \o <<"_">> \o Str(n) \o DotTxt

\* No call of a run finds more than the files of the initial directory and
\* those of the earlier calls.
MaxSuffix == MaxSaves + 3

\* The suffix number of a returned path, 0 for the base path itself.
SuffixOf(rec) ==
  IF rec.path = rec.base THEN 0
  ELSE CHOOSE n \in 1..MaxSuffix : rec.path = Numbered(rec.base, n)

FirstFit(rec) ==
  IF rec.base \notin DOMAIN rec.before
    THEN rec.path = rec.base
    ELSE \E n \in 1..MaxSuffix :
           /\ rec.path = Numbered(rec.base, n)
           /\ rec.path \notin DOMAIN rec.before
           /\ \A j \in 1..(n - 1) : Numbered(rec.base, j) \in DOMAIN rec.before

\* C11 (as claimed): every save_response call picks the first free suffix, and
\* over the calls of one run for the same base name that found the base path
\* taken the suffix numbers are strictly increasing, also when files were
\* removed from the directory between the calls.
C11_NeverReused ==
  /\ \A x \in 1..Len(saved) : FirstFit(saved[x])
  /\ \A x, y \in 1..Len(saved) :
       (/\ x < y
        /\ saved[x].base = saved[y].base
        /\ saved[x].path # saved[x].base
        /\ saved[y].path # saved[y].base)
       => SuffixOf(saved[y]) > SuffixOf(saved[x])

\* C11 (amended): every save_response call returns the base path when it is
\* free and otherwise <name>_N<ext> for the smallest N >= 1 that is free in the
\* directory as the call finds it; over the calls of one run for the same base
\* name the suffix numbers are strictly increasing as long as no file written
\* or found by the earlier call has been removed in between.
C11_FirstFit ==
  /\ \A x \in 1..Len(saved) : FirstFit(saved[x])
  /\ \A x, y \in 1..Len(saved) :
       (/\ x < y
        /\ saved[x].base = saved[y].base
        /\ saved[y].path # saved[y].base
        /\ DOMAIN saved[x].after \subseteq DOMAIN saved[y].before)
       => SuffixOf(saved[y]) > SuffixOf(saved[x])

\* a-response.txt was there; the first save of "a" got a-response_1.txt, that
\* file was removed, and the second save of "a" got a-response_1.txt again.
C11_Witness ==
  /\ Len(saved) = 2
  /\ saved[1].base = AResponse
  /\ saved[1].path = Numbered(AResponse, 1)
  /\ saved[2].base = AResponse
  /\ saved[2].path = Numbered(AResponse, 1)
  /\ AResponse \in DOMAIN saved[2].before
  /\ fs[Numbered(AResponse, 1)] = 2


\* Position of a path in a list of distinct paths, 0 when absent.
IndexIn(files, path) ==
  IF \E i \in 1..Len(files) : files[i] = path
    THEN CHOOSE i \in 1..Len(files) : files[i] = path
    ELSE 0

\* C12: within one combination the steps are assemble, model call, write, in
\* that order: the model is called only right after the prompt was assembled,
\* save_response is entered only right after the model returned a response,
\* and files are written only inside save_response; the next combination is
\* assembled only when every earlier one has been counted as completed (its
\* file written) or as failed; and the combinations follow the outer loop
\* over A and the inner loop over B.
C12_StepOrder ==
  /\ [](pc \notin {"lib", "name"} =>
          \A x, y \in 1..Len(attempts) :
            x < y =>
              \/ IndexIn(var_a_files, attempts[x][1])
                   < IndexIn(var_a_files, attempts[y][1])
              \/ /\ attempts[x][1] = attempts[y][1]
                 /\ IndexIn(var_b_files, attempts[x][2])
                      < IndexIn(var_b_files, attempts[y][2]))
  /\ [][/\ (pc' = "combine_prompts" /\ pc # "combine_prompts") =>
             /\ pc = "loop"
             /\ sv[1].pc = "idle"
             /\ Len(attempts') = Len(attempts) + 1
             /\ completed + FailedTotal = Len(attempts)
             /\ Len(saved) = completed
        /\ (pc' = "query_model" /\ pc # "query_model") =>
             /\ pc = "combine_prompts"
             /\ cur'.var_a_name = extract_filename(cur.var_a_path)
             /\ cur'.var_b_name = extract_filename(cur.var_b_path)
        /\ (pc' = "save_response" /\ pc # "save_response") =>
             /\ pc = "query_model"
             /\ requests' = requests + 1
             /\ cur'.response = requests'
        /\ (pc' = "saving" /\ pc # "saving") =>
             /\ pc = "save_response"
             /\ sv'[1].content = cur.response
        /\ requests' # requests => pc = "query_model"
        /\ fs' # fs => pc = "saving"
        /\ completed' # completed =>
             /\ pc = "saving"
             /\ sv[1].pc = "returned"
             /\ completed' = completed + 1
             /\ fs[sv[1].output_path] = sv[1].content
     ]_vars

\* The second combination is being assembled after the first was queried and
\* its file written.
C12_Witness ==
  /\ pc = "combine_prompts"
  /\ Len(attempts) = 2
  /\ completed = 1
  /\ requests = 1
  /\ Len(saved) = 1
  /\ fs[saved[1].path] = 1

C14_InterruptClean ==
  cause = "KeyboardInterrupt" =>
    /\ pc = "Failed"
    /\ exit_status = 1
    /\ \A x \in 1..Len(saved) :
         /\ saved[x].path \in DOMAIN fs
         /\ fs[saved[x].path] = saved[x].content
    /\ \A q \in DOMAIN fs : fs[q] # Empty

====
